---- MODULE Spec2Model ----
(***************************************************************************)
(* A model of makelora.py: the batch driver (the "for folder in folders"   *)
(* loop), run_training_with_retry, the staging of the pretrained model     *)
(* file in the temporary directory and its restore in the finally block.   *)
(*                                                                         *)
(* Python code between two blocking calls is one atomic step.  A SIGINT    *)
(* is modelled where the main thread blocks: inside shutil.move (a copy    *)
(* between two filesystems), inside process.wait, inside subprocess.run.   *)
(*                                                                         *)
(* Spec is the batch driver, with one call of                              *)
(* run_command_and_stream_output as one step.  SpecRun is one such call:   *)
(* the subprocess, its two pipes, the two reader threads and the main      *)
(* thread that waits, handles KeyboardInterrupt and joins the readers.     *)
(* SpecMerge is deep_update, compare_configs and the config.update of the  *)
(* retry path on bounded documents.  SpecUnstage is the finally block of   *)
(* one unit, entered in every state the try body can leave, with weak      *)
(* fairness of the main thread.  SpecStream is one run that no SIGINT      *)
(* disturbs, with weak fairness of the child and of every thread.          *)
(***************************************************************************)
EXTENDS Integers, Sequences, FiniteSets, TLC

\* Number of work-unit folders found by os.listdir (folders == 1..NumUnits).
NumUnits == 2

\* makelora.py:593
max_retries == 5

\* Lines the subprocess writes to its two channels together, at most.
MaxLines == 2

\* Lines an OS pipe holds before the writer blocks.
PipeCap == 1

\* The nesting depth of a configuration document.
MaxDepth == 2

\* The number of keys, nested ones included, of the documents of one merge
\* together.
MaxEntries == 4


Units == 1..NumUnits

\* makelora.py:203
oom_keywords == {"CUDA out of memory", "torch.cuda.OutOfMemoryError"}

\* A text is the sequence of its lines; "keyword in text" (str.__contains__)
\* holds when one of its lines is the keyword.
Contains(text, keyword) == \E k \in DOMAIN text : text[k] = keyword

\* The stderr texts a training run can leave behind.
StderrTexts ==
    { <<"Traceback">>, <<"CUDA out of memory">>,
      <<"Traceback", "torch.cuda.OutOfMemoryError">> }

\* rclone_result before line 647 assigned it.
NoUpload == [returncode |-> -1, text |-> <<>>]

\* The texts with which rclone reports that the Drive quota is exceeded ...
QuotaTexts ==
    { <<"Error 403", "storageQuotaExceeded">>,
      <<"The user's", "Drive storage quota", "has been exceeded">> }

\* ... and the combined stdout/stderr texts of an rclone copy.
RcloneTexts == QuotaTexts \cup { <<"network error">> }

\* subprocess.CompletedProcess(returncode, stderr); None before the first run.
None == [returncode |-> -1, stderr |-> <<"None">>]
CompletedProcess(rc, err) == [returncode |-> rc, stderr |-> err]
Completed == { CompletedProcess(rc, err) : rc \in {0, 1}, err \in StderrTexts }

\* str(e) of an exception raised while launching the subprocess.
ExceptionText == <<"str(e)">>

VARIABLES
    \* ---- configuration and environment, fixed for the batch run ----
    pretrained_name,      \* paths.get('pretrained_model_name_or_path') is set
    is_abs,               \* os.path.isabs(original_model_path)
    same_path,            \* abspath(original_model_path) = abspath(temp_model_path)
    same_fs,              \* os.rename between the two directories works
    test_mode,            \* args.test
    \* ---- filesystem ----
    perm,                 \* the model file at original_model_path: none/partial/full
    temp,                 \* the model file at temp_model_path
    folder_exists,        \* unit -> its input directory exists
    cfg_file,             \* unit -> its temp_config_file: none/partial/base/oom
    heap,                 \* dict object -> what it holds: none/base/oom
    config_ref,           \* the dict object the name "config" is bound to
    \* ---- the main loop ----
    pc, idx,
    original_model_path,  \* not None
    temp_model_path,      \* not None
    result, should_skip,
    rclone_result,        \* the CompletedProcess of the rclone copy, line 647
    exc,                  \* the exception in flight: none/Exception/KeyboardInterrupt/SystemExit
    retry_i,              \* the restore loop's i
    sigint_handler,       \* signal.getsignal(SIGINT): default / SIG_IGN
    processed_folders, skipped_folders,
    \* ---- history of the current unit (reset when the next unit begins) ----
    attempts,             \* what each launch of the training subprocess did
    launches,             \* the command and the config file of each launch
    oom_config,           \* outofmemory.toml as line 214 found it: absent/good/malformed
    first_result,         \* the outcome of the first attempt
    retry_ready,          \* the override was loaded and the config file rewritten
    staged,               \* stage moved the file to, or reused it at, temp_model_path
    restore_tried,        \* shutil.move(temp_model_path, original_model_path) was called
    restore_ok,           \* ... and returned
    restore_exc,          \* the error the last call of shutil.move raised, or none
    sigint_ignored,       \* a SIGINT arrived while SIGINT was set to SIG_IGN
    start_perm, start_temp,
    \* ---- history of the batch ----
    began,                \* unit -> its loop iteration started
    quota_hit,            \* the unit whose failed upload reported the quota, or 0
    overridden,           \* config.update(oom_config) was executed for some unit
    init_perm, init_temp

driver_vars ==
    << pretrained_name, is_abs, same_path, same_fs, test_mode,
       perm, temp, folder_exists, cfg_file, heap, config_ref, pc, idx, original_model_path,
       temp_model_path, result, should_skip, rclone_result, exc, retry_i,
       sigint_handler, processed_folders, skipped_folders, attempts, launches, oom_config, first_result,
       retry_ready, staged, restore_tried, restore_ok, restore_exc, sigint_ignored, start_perm, start_temp,
       began, quota_hit, overridden, init_perm, init_temp >>

VARIABLES
    \* ---- one run of run_command_and_stream_output ----
    process,              \* the Popen child: running / exited (poll() is not None)
    returncode,           \* its exit status
    sigterm,              \* process.terminate() delivered SIGTERM
    to_emit,              \* channel -> the lines the child has yet to write
    emitted,              \* channel -> the text the child wrote so far
    pipe,                 \* channel -> the lines in the OS pipe
    container,            \* channel -> stdout_lines / stderr_lines
    reader_pc,            \* channel -> read / acquire / render / done
    reader_line,          \* channel -> the reader's current line
    print_lock,           \* free, or the channel whose reader holds it
    status_info,          \* status_info['epoch']
    main_pc,              \* the main thread
    ki,                   \* the exception in flight in the main thread
    cancelled,            \* a KeyboardInterrupt was raised in process.wait(), line 151
    kill_raised,          \* process.kill() raised
    render_failed,        \* sys.stdout.write raised in a reader
    ret                   \* the CompletedProcess returned, or None

run_vars ==
    << process, returncode, sigterm, to_emit, emitted, pipe, container, reader_pc,
       reader_line, print_lock, status_info, main_pc, ki, cancelled,
       kill_raised, render_failed, ret >>

VARIABLES
    \* ---- deep_update and compare_configs applied to documents ----
    doc_base, doc_A, doc_B,   \* a base document and two overlays
    merged_A,                 \* deep_update(base, A)
    merged_AB,                \* deep_update(deep_update(base, A), B)
    overlay_AB,               \* deep_update(A, B)
    merged_overlay,           \* deep_update(base, deep_update(A, B))
    changes,                  \* compare_configs(base, A)
    config,                   \* the unit's config, updated with A at line 232
    merge_pc

merge_vars ==
    << doc_base, doc_A, doc_B, merged_A, merged_AB, overlay_AB, merged_overlay,
       changes, config, merge_pc >>

vars == << driver_vars, run_vars, merge_vars >>

Channels == {"stdout", "stderr"}

cfg_vars == << pretrained_name, is_abs, same_path, same_fs, test_mode,
               init_perm, init_temp >>

\* The dict objects and the binding of the name "config".
heap_vars == << heap, config_ref, overridden >>

\* base_config as lines 460-480 left it, and the dict that line 518 makes.
Objects == {"base_config", "copy"}

\* The locals of one loop iteration and the history of the unit.
unit_vars == << original_model_path, temp_model_path, result, should_skip, exc,
                retry_i, attempts, launches, oom_config, first_result, retry_ready, staged,
                restore_tried, restore_ok, restore_exc, sigint_ignored, start_perm, start_temp >>

----------------------------------------------------------------------------
\* The state after the preparation steps [1]..[5] and just before the loop.

DriverInit ==
    /\ pretrained_name \in BOOLEAN
    /\ is_abs \in BOOLEAN
    /\ same_path \in BOOLEAN
    /\ same_fs \in BOOLEAN
    /\ test_mode \in BOOLEAN
    /\ perm \in {"none", "full"}
    /\ temp \in {"none", "full"}
    \* settings that are never read are fixed, to keep one state per case
    /\ (~pretrained_name) => (is_abs /\ ~same_path)
    /\ (~pretrained_name \/ ~is_abs) =>
          (same_fs /\ ~test_mode /\ perm = "full" /\ temp = "none")
    /\ same_path => (same_fs /\ temp = perm)
    /\ folder_exists = [u \in Units |-> TRUE]
    /\ cfg_file = [u \in Units |-> "none"]
    /\ heap = [o \in Objects |-> IF o = "base_config" THEN "base" ELSE "none"]
    /\ config_ref = "unbound"
    /\ pc = "loop"
    /\ idx = 1
    /\ original_model_path = FALSE
    /\ temp_model_path = FALSE
    /\ result = None
    /\ should_skip = FALSE
    /\ rclone_result = NoUpload
    /\ exc = "none"
    /\ retry_i = 0
    /\ sigint_handler = "default"
    /\ processed_folders = {}
    /\ skipped_folders = {}
    /\ attempts = <<>>
    /\ launches = <<>>
    /\ oom_config = "unread"
    /\ first_result = None
    /\ retry_ready = FALSE
    /\ staged = FALSE
    /\ restore_tried = FALSE
    /\ restore_ok = FALSE
    /\ restore_exc = "none"
    /\ sigint_ignored = FALSE
    /\ start_perm = perm
    /\ start_temp = temp
    /\ began = [u \in Units |-> FALSE]
    /\ quota_hit = 0
    /\ overridden = FALSE
    /\ init_perm = perm
    /\ init_temp = temp

----------------------------------------------------------------------------
\* run_training_with_retry, decisions

\* Mutant of ShouldRetry: every failed attempt is retried.
ShouldRetryAnyFailure(r) == r.returncode # 0

\* makelora.py:206: retry only after a failure whose stderr names an OOM error.
ShouldRetry(r) ==
    r.returncode # 0 /\ \E keyword \in oom_keywords : Contains(r.stderr, keyword)

\* Mutant of DummyResult: the exception becomes a successful outcome.
DummyResultSuccess == CompletedProcess(0, ExceptionText)

\* makelora.py:252: the dummy failed result of the outer except.
DummyResult == CompletedProcess(1, ExceptionText)

\* What one attempt left in the history of the unit.
Ran(r) == [kind |-> "completed", result |-> r]
Raised(e) == [kind |-> e, result |-> None]

----------------------------------------------------------------------------
\* The main loop, lines 509-581: config, staging of the model file.

\* Lines 529-557: what the staging code decides to do with the model file.
StageDecision ==
    IF ~pretrained_name THEN "unset"
    ELSE IF ~is_abs THEN "TypeError"        \* os.path.abspath(None), line 544
    ELSE IF same_path THEN "in_place"
    ELSE IF perm # "none" THEN "move"
    ELSE IF temp # "none" THEN "reuse"
    ELSE "missing"

\* Lines 510-557, up to the call of shutil.move.
\* Mutant of deepcopy: no copy is made, the same dict is used.
deepcopyAlias(obj) == obj

\* copy.deepcopy(obj), line 518: a new dict, equal to obj at every level.
deepcopy(obj) == "copy"

UnitBegin ==
    /\ pc = "loop"
    /\ idx <= NumUnits
    /\ began' = [began EXCEPT ![idx] = TRUE]
    /\ config_ref' = deepcopy("base_config")
    /\ heap' = [heap EXCEPT ![deepcopy("base_config")] = heap["base_config"]]
    /\ original_model_path' = pretrained_name
    /\ temp_model_path' = (pretrained_name /\ is_abs)
    /\ should_skip' = (StageDecision \in {"unset", "missing"})
    /\ skipped_folders' =
          IF StageDecision = "missing" THEN skipped_folders \cup {idx}
          ELSE skipped_folders
    /\ exc' = IF StageDecision = "TypeError" THEN "Exception" ELSE "none"
    /\ staged' = (StageDecision = "reuse")
    /\ pc' = CASE StageDecision \in {"unset", "missing", "TypeError"} -> "finally"
               [] StageDecision = "move" -> "stage_move"
               [] OTHER -> "write_cfg"
    /\ UNCHANGED << run_vars, merge_vars, cfg_vars, perm, temp, folder_exists, cfg_file, idx,
                    overridden,
                    sigint_handler, processed_folders, quota_hit, rclone_result, result, retry_i,
                    attempts, launches, oom_config, first_result, retry_ready, restore_tried,
                    restore_ok, restore_exc, sigint_ignored, start_perm, start_temp >>

\* What stays as it is while the model file is being staged.
stage_frame ==
    << run_vars, merge_vars, cfg_vars, heap_vars, folder_exists, cfg_file, idx, sigint_handler, processed_folders,
       skipped_folders, began, quota_hit, rclone_result, original_model_path, temp_model_path,
       result, should_skip, retry_i, attempts, launches, oom_config, first_result,
       retry_ready, restore_tried, restore_ok, restore_exc, sigint_ignored, start_perm,
       start_temp >>

\* shutil.move(src, dst) that returned: dst holds what src held, src is gone.
StageMoved(src) == [perm |-> "none", temp |-> src]

\* Line 547, os.rename succeeds (one filesystem).
StageRename ==
    /\ pc = "stage_move"
    /\ same_fs
    /\ perm' = StageMoved(perm).perm
    /\ temp' = StageMoved(perm).temp
    /\ staged' = TRUE
    /\ pc' = "write_cfg"
    /\ UNCHANGED << stage_frame, exc >>

\* Line 547, shutil.move raises before it changed anything.
StageMoveFails ==
    /\ pc = "stage_move"
    /\ exc' = "Exception"
    /\ pc' = "finally"
    /\ UNCHANGED << stage_frame, perm, temp, staged >>

\* Line 547 across filesystems: os.rename fails, copy2 opens the destination.
StageCopyBegin ==
    /\ pc = "stage_move"
    /\ ~same_fs
    /\ temp' = "partial"
    /\ pc' = "stage_copy"
    /\ UNCHANGED << stage_frame, perm, staged, exc >>

\* ... the copy ends and os.unlink(src) removes the source.
StageCopyEnd ==
    /\ pc = "stage_copy"
    /\ perm' = StageMoved(perm).perm
    /\ temp' = StageMoved(perm).temp
    /\ staged' = TRUE
    /\ pc' = "write_cfg"
    /\ UNCHANGED << stage_frame, exc >>

\* ... the copy raises half way (copied = FALSE), or os.unlink(src) raises
\* after the copy (copied = TRUE): the source stays where it was.
StageCopyFails ==
    /\ pc = "stage_copy"
    /\ \E copied \in BOOLEAN :
          temp' = IF copied THEN perm ELSE "partial"
    /\ exc' = "Exception"
    /\ pc' = "finally"
    /\ UNCHANGED << stage_frame, perm, staged >>

\* A SIGINT while the copy of line 547 runs: KeyboardInterrupt in the main thread.
SigintDuringStage ==
    /\ pc = "stage_copy"
    /\ sigint_handler = "default"
    /\ exc' = "KeyboardInterrupt"
    /\ pc' = "finally"
    /\ UNCHANGED << stage_frame, perm, temp, staged >>

\* What stays as it is while the training job runs.
job_frame ==
    << run_vars, merge_vars, cfg_vars, perm, temp, folder_exists, idx, sigint_handler, processed_folders,
       skipped_folders, began, quota_hit, rclone_result, original_model_path, temp_model_path,
       should_skip, retry_i, staged, restore_tried, restore_ok, restore_exc, sigint_ignored,
       start_perm, start_temp >>

\* Lines 562-577: the temporary config file is written, the command built.
WriteConfig ==
    /\ pc = "write_cfg"
    /\ \E ok \in BOOLEAN :
          IF ok
          THEN /\ cfg_file' = [cfg_file EXCEPT ![idx] = heap[config_ref]]
               /\ pc' = "attempt1"
               /\ exc' = exc
          ELSE /\ cfg_file' = [cfg_file EXCEPT ![idx] = "partial"]
               /\ pc' = "finally"
               /\ exc' = "Exception"
    /\ UNCHANGED << job_frame, heap_vars, result, attempts, launches, oom_config,
                    first_result, retry_ready >>

----------------------------------------------------------------------------
\* run_training_with_retry, lines 190-252.  One call of
\* run_command_and_stream_output returns a CompletedProcess, raises an
\* Exception (Popen or Thread.start failed) or re-raises KeyboardInterrupt.

RunOutcomes ==
    { Ran(r) : r \in Completed } \cup { Raised("Exception"), Raised("KeyboardInterrupt") }

\* Lines 206-245: what follows the first attempt's result r, with
\* outofmemory.toml in state toml.
RetryPath(r, toml) ==
    IF ~ShouldRetry(r) THEN "final"             \* line 247
    ELSE IF toml = "absent" THEN "skip"         \* lines 214-216
    ELSE IF toml = "malformed" THEN "error"     \* toml.load raises, lines 242-245
    ELSE "retry"

\* Lines 566-577: the command names the unit's temp_config_file.
command(u) == [config_file |-> u]

\* One call of run_command_and_stream_output(command, folder_name), lines 200
\* and 240: the command and what the config file holds when it is made.
Launched(u) == [command |-> command(u), config |-> cfg_file[u]]

\* Mutant of Rewritten: the config file is left as it was.
RewrittenNever(written) == "base"

\* Lines 235-236: the config file after open(..., 'w') and toml.dump.
Rewritten(written) == IF written THEN "oom" ELSE "partial"

\* Mutant of Caught: a bare except, which catches KeyboardInterrupt too.
CaughtAll(kind) == TRUE

\* Lines 242 and 249: "except Exception" catches what derives from
\* Exception; KeyboardInterrupt does not and goes on to the caller.
Caught(kind) == kind = "Exception"

\* Lines 200-238: the first attempt and the retry decision.
Attempt1 ==
    /\ pc = "attempt1"
    /\ \E o \in RunOutcomes, toml \in {"absent", "good", "malformed"},
          written \in BOOLEAN :
          /\ attempts' = Append(attempts, o)
          /\ launches' = Append(launches, Launched(idx))
          /\ CASE o.kind # "completed" /\ ~Caught(o.kind) ->
                    /\ exc' = o.kind
                    /\ pc' = "finally"
                    /\ UNCHANGED << result, first_result, retry_ready, cfg_file,
                                    oom_config, heap, overridden >>
               [] o.kind # "completed" /\ Caught(o.kind) ->
                    /\ result' = DummyResult
                    /\ first_result' = DummyResult
                    /\ pc' = "finally"
                    /\ UNCHANGED << exc, retry_ready, cfg_file, oom_config, heap,
                                    overridden >>
               [] o.kind = "completed" ->
                    /\ result' = o.result
                    /\ first_result' = o.result
                    /\ exc' = exc
                    /\ oom_config' = IF ShouldRetry(o.result) THEN toml ELSE oom_config
                    /\ IF RetryPath(o.result, toml) = "retry"
                       THEN \* lines 232-236: config.update changes the dict that
                            \* "config" is bound to; rewrite of the file
                            /\ heap' = [heap EXCEPT ![config_ref] = "oom"]
                            /\ overridden' = TRUE
                            /\ retry_ready' = written
                            /\ cfg_file' = [cfg_file EXCEPT ![idx] = Rewritten(written)]
                            /\ pc' = IF written THEN "attempt2" ELSE "finally"
                       ELSE /\ pc' = "finally"
                            /\ UNCHANGED << retry_ready, cfg_file, heap, overridden >>
    /\ UNCHANGED << job_frame, config_ref >>

\* Mutant of AfterSecondAttempt: the next unit begins without the finally
\* block of this one.
AfterSecondAttemptNextUnit(r) == "loop"

\* Mutant of AfterSecondAttempt: the retry is open-ended.
AfterSecondAttemptRetrying(r) == IF ShouldRetry(r) THEN "attempt2" ELSE "finally"

\* Lines 240-247: where control goes after the second attempt ended with r.
AfterSecondAttempt(r) == "finally"

\* Line 240: the second attempt; its result is returned (line 247), an
\* Exception returns the first result (line 245); a KeyboardInterrupt leaves
\* the function, and line 579 assigns nothing to the loop's result.
Attempt2 ==
    /\ pc = "attempt2"
    /\ \E o \in RunOutcomes :
          /\ attempts' = Append(attempts, o)
          /\ launches' = Append(launches, Launched(idx))
          /\ result' = IF o.kind = "completed" THEN o.result
                       ELSE IF Caught(o.kind) THEN result
                       ELSE None
          /\ exc' = IF o.kind # "completed" /\ ~Caught(o.kind) THEN o.kind ELSE exc
          /\ pc' = IF o.kind = "completed" THEN AfterSecondAttempt(o.result)
                   ELSE "finally"
    /\ UNCHANGED << job_frame, heap_vars, cfg_file, oom_config, first_result, retry_ready >>

----------------------------------------------------------------------------
\* The finally block, lines 581-613: the model file goes back.

\* What stays as it is during the finally block.
finally_frame ==
    << run_vars, merge_vars, cfg_vars, heap_vars, folder_exists, cfg_file, idx, processed_folders, skipped_folders,
       began, quota_hit, rclone_result, original_model_path, temp_model_path, result, should_skip,
       exc, attempts, launches, oom_config, first_result, retry_ready, staged, start_perm,
       start_temp >>

\* Mutant of RestoreNeeded: the restore is skipped when an exception is in
\* flight (the restore after the try block instead of in its finally).
RestoreNeededNoError ==
    original_model_path /\ temp_model_path /\ temp # "none" /\ ~same_path
    /\ exc = "none"

\* Lines 583-584.
RestoreNeeded ==
    original_model_path /\ temp_model_path /\ temp # "none" /\ ~same_path

\* Lines 583-589: SIGINT is set to SIG_IGN before the move.
Finally ==
    /\ pc = "finally"
    /\ IF RestoreNeeded
       THEN /\ sigint_handler' = "SIG_IGN"
            /\ pc' = "restore"
       ELSE /\ pc' = "after_finally"
            /\ UNCHANGED sigint_handler
    /\ UNCHANGED << finally_frame, perm, temp, retry_i, restore_tried, restore_ok, restore_exc,
                    sigint_ignored >>

\* Mutant of RestoreMoved: the file is copied back and the staged copy kept.
RestoreCopied(src) == [perm |-> src, temp |-> src]

\* shutil.move(temp_model_path, original_model_path) that returned.
RestoreMoved(src) == [perm |-> src, temp |-> "none"]

\* Line 588: signal.getsignal(signal.SIGINT) before the move; the script
\* installs no handler of its own.
original_sigint_handler == "default"

\* Mutant of HandlerAfterRestore: the handler is put back only after a move
\* that returned (no finally).
HandlerAfterRestoreNoFinally(ok) == IF ok THEN original_sigint_handler ELSE "SIG_IGN"

\* Lines 611-613: signal.signal(SIGINT, original_sigint_handler) in the
\* finally, after a move that returned (ok) and after one that raised.
HandlerAfterRestore(ok) == original_sigint_handler

\* Mutant of RestoreRetries: every error of the move is retried.
RestoreRetriesAnyError(e) == retry_i < max_retries - 1

\* Lines 600-605: a PermissionError is retried while i < max_retries - 1.
RestoreRetries(e) == e = "PermissionError" /\ retry_i < max_retries - 1

\* Lines 600-613: the move raised error e in iteration retry_i.  Without a
\* retry the error is logged (lines 608-610) and the finally of line 611 puts
\* the SIGINT handler back.
RestoreRaise(e) ==
    /\ restore_tried' = TRUE
    /\ restore_exc' = e
    /\ IF RestoreRetries(e)
       THEN /\ retry_i' = retry_i + 1
            /\ pc' = "restore"
            /\ UNCHANGED sigint_handler
       ELSE /\ sigint_handler' = HandlerAfterRestore(FALSE)
            /\ pc' = "after_finally"
            /\ UNCHANGED retry_i
    /\ UNCHANGED << finally_frame, restore_ok, sigint_ignored >>

\* Lines 596-599 and 613: the move returned, the loop breaks.
RestoreDone ==
    /\ restore_tried' = TRUE
    /\ restore_ok' = TRUE
    /\ perm' = RestoreMoved(temp).perm
    /\ temp' = RestoreMoved(temp).temp
    /\ restore_exc' = "none"
    /\ sigint_handler' = HandlerAfterRestore(TRUE)
    /\ pc' = "after_finally"
    /\ UNCHANGED << finally_frame, retry_i, sigint_ignored >>

\* Line 597, os.rename succeeds.
RestoreRename ==
    /\ pc = "restore"
    /\ same_fs
    /\ RestoreDone

\* Lines 596-597, os.makedirs or shutil.move raises before anything changed.
RestoreFails ==
    /\ pc = "restore"
    /\ \E e \in {"PermissionError", "OSError"} : RestoreRaise(e)
    /\ UNCHANGED << perm, temp >>

\* Line 597 across filesystems: copy2 opens (and truncates) the destination.
RestoreCopyBegin ==
    /\ pc = "restore"
    /\ ~same_fs
    /\ perm' = "partial"
    /\ restore_tried' = TRUE
    /\ pc' = "restore_copy"
    /\ UNCHANGED << finally_frame, temp, retry_i, sigint_handler, restore_ok,
                    restore_exc, sigint_ignored >>

\* ... the copy ends and os.unlink removes the staged file.
RestoreCopyEnd ==
    /\ pc = "restore_copy"
    /\ RestoreDone

\* ... the copy raises half way, or os.unlink(temp_model_path) raises after it.
RestoreCopyFails ==
    /\ pc = "restore_copy"
    /\ \E e \in {"PermissionError", "OSError"}, copied \in BOOLEAN :
          /\ perm' = IF copied THEN temp ELSE "partial"
          /\ RestoreRaise(e)
    /\ UNCHANGED temp

\* A SIGINT while SIGINT is set to SIG_IGN (lines 589-613): the kernel
\* discards it; no handler runs, nothing is left pending.
SigintDuringRestore ==
    /\ pc \in {"restore", "restore_copy"}
    /\ sigint_handler = "SIG_IGN"
    /\ ~sigint_ignored
    /\ sigint_ignored' = TRUE
    /\ UNCHANGED << finally_frame, perm, temp, pc, retry_i, sigint_handler,
                    restore_tried, restore_ok, restore_exc >>

----------------------------------------------------------------------------
\* After the finally block, lines 615-728.

\* What stays as it is after the finally block.
after_frame ==
    << run_vars, merge_vars, cfg_vars, heap_vars, perm, temp, sigint_handler, skipped_folders, began >>

\* The locals and the unit's history, but for exc.
unit_rest ==
    << original_model_path, temp_model_path, result, should_skip, retry_i,
       attempts, launches, oom_config, first_result, retry_ready, staged, restore_tried,
       restore_ok, restore_exc, sigint_ignored, start_perm, start_temp >>

\* Mutant of JobFailed: only a missing result counts as a failure.
JobFailedOnlyIfNone(r) == r = None

\* Line 619.
JobFailed(r) == r = None \/ r.returncode # 0

\* os.remove(temp_config_file).
RemoveConfig == cfg_file' = [cfg_file EXCEPT ![idx] = "none"]

\* "continue", or the end of the loop body: the next folder, whose iteration
\* starts with fresh locals (lines 510-514); rclone_result, which the next
\* iteration assigns before it reads it, is forgotten as well.
Continue ==
    /\ idx' = idx + 1
    /\ pc' = "loop"
    /\ original_model_path' = FALSE
    /\ temp_model_path' = FALSE
    /\ result' = None
    /\ should_skip' = FALSE
    /\ rclone_result' = NoUpload
    /\ exc' = "none"
    /\ retry_i' = 0
    /\ attempts' = <<>>
    /\ launches' = <<>>
    /\ oom_config' = "unread"
    /\ first_result' = None
    /\ retry_ready' = FALSE
    /\ staged' = FALSE
    /\ restore_tried' = FALSE
    /\ restore_ok' = FALSE
    /\ restore_exc' = "none"
    /\ sigint_ignored' = FALSE
    /\ start_perm' = perm
    /\ start_temp' = temp

\* Lines 615-630.  An exception in flight leaves the loop and ends the script.
AfterFinally ==
    /\ pc = "after_finally"
    /\ IF exc # "none"
       THEN pc' = "exited" /\ UNCHANGED << idx, cfg_file, unit_rest, exc, rclone_result >>
       ELSE IF should_skip
       THEN Continue /\ UNCHANGED cfg_file
       ELSE IF JobFailed(result)
       THEN Continue /\ RemoveConfig
       ELSE pc' = "upload" /\ UNCHANGED << idx, cfg_file, unit_rest, exc, rclone_result >>
    /\ UNCHANGED << after_frame, folder_exists, processed_folders, quota_hit >>

\* Line 650: the quota signatures looked for in rclone's output.
QuotaExceeded(text) ==
    \/ Contains(text, "storageQuotaExceeded")
    \/ Contains(text, "Drive storage quota")
    \/ Contains(text, "The user's Drive storage quota has been exceeded")

\* Mutant of AfterFailedUpload: the quota is handled like any other failure.
AfterFailedUploadContinue(text) == "continue"

\* Lines 648-662: a failed rclone copy ends the script or skips the unit.
AfterFailedUpload(text) == IF QuotaExceeded(text) THEN "exit" ELSE "continue"

\* subprocess.run(rclone_command): returns, raises, or is interrupted.
UploadOutcomes ==
    { [kind |-> "completed", returncode |-> rc, text |-> t] :
          rc \in {0, 1}, t \in RcloneTexts }
    \cup { [kind |-> k, returncode |-> 1, text |-> <<>>] :
          k \in {"Exception", "KeyboardInterrupt"} }

\* Lines 640-671.
Upload ==
    /\ pc = "upload"
    /\ \E o \in UploadOutcomes :
          CASE o.kind = "KeyboardInterrupt" ->
                  /\ exc' = "KeyboardInterrupt"
                  /\ pc' = "exited"
                  /\ UNCHANGED << idx, cfg_file, quota_hit, unit_rest, rclone_result >>
            [] o.kind = "Exception" ->
                  /\ Continue
                  /\ RemoveConfig
                  /\ UNCHANGED quota_hit
            [] o.kind = "completed" /\ o.returncode = 0 ->
                  /\ rclone_result' = [returncode |-> o.returncode, text |-> o.text]
                  /\ pc' = "delete"
                  /\ UNCHANGED << idx, cfg_file, quota_hit, unit_rest, exc >>
            [] o.kind = "completed" /\ o.returncode # 0
                  /\ AfterFailedUpload(o.text) = "exit" ->
                  /\ quota_hit' = IF o.text \in QuotaTexts THEN idx ELSE quota_hit
                  /\ rclone_result' = [returncode |-> o.returncode, text |-> o.text]
                  /\ exc' = "SystemExit"              \* sys.exit(1), line 654
                  /\ pc' = "exited"
                  /\ UNCHANGED << idx, cfg_file, unit_rest >>
            [] o.kind = "completed" /\ o.returncode # 0
                  /\ AfterFailedUpload(o.text) = "continue" ->
                  /\ quota_hit' = IF o.text \in QuotaTexts THEN idx ELSE quota_hit
                  /\ Continue
                  /\ RemoveConfig
    /\ UNCHANGED << after_frame, folder_exists, processed_folders >>

\* Mutant of Appended: the unit is reported as processed after a failed
\* rmtree as well.
AppendedAlways(rmtree_ok) == TRUE

\* Lines 712-721: processed_folders.append(folder) is reached in test mode
\* (line 714) and after an rmtree that returned (line 719).
Appended(rmtree_ok) == test_mode \/ rmtree_ok

\* Lines 673-728: rclone cleanup, the output directory is cleared, the input
\* folder is deleted (not in test mode) and the config file removed.
Delete ==
    /\ pc = "delete"
    /\ \E rmtree_ok \in BOOLEAN :
          /\ folder_exists' =
                [folder_exists EXCEPT ![idx] = IF test_mode \/ ~rmtree_ok THEN @ ELSE FALSE]
          /\ processed_folders' =
                IF Appended(rmtree_ok) THEN processed_folders \cup {idx}
                ELSE processed_folders
    /\ RemoveConfig
    /\ Continue
    /\ UNCHANGED << after_frame, quota_hit >>

\* Line 744.
remaining_folders == Units \ processed_folders

\* Lines 731-763: the loop is over, the summary is printed.
Summary ==
    /\ pc = "loop"
    /\ idx > NumUnits
    /\ pc' = "summary"
    /\ UNCHANGED << after_frame, folder_exists, cfg_file, idx, processed_folders,
                    quota_hit, unit_rest, exc, rclone_result >>

----------------------------------------------------------------------------
\* run_command_and_stream_output, lines 62-188.

\* A line is the sequence of its words and its line end; a text is the
\* concatenation of its lines.
Lines ==
    { <<"epoch", "1/2", "\n">>,
      <<"steps:", "1.2it/s", "\n">>,
      <<"CUDA out of memory", "\n">> }

\* All sequences over S of length at most n.
SeqsUpTo(S, n) == UNION { [1..k -> S] : k \in 0..n }

\* stripped_line.startswith("epoch") and "/" in stripped_line, line 112.
IsEpoch(line) == line[1] = "epoch" /\ \E k \in DOMAIN line : line[k] = "1/2"

\* "".join(lines), lines 186-187.
RECURSIVE Join(_)
Join(lines) == IF lines = <<>> THEN <<>> ELSE Head(lines) \o Join(Tail(lines))

NoReturn == [returncode |-> -1, stdout |-> <<>>, stderr |-> <<>>]

\* Lines 68-148: the child runs, both readers are started, the main thread
\* is about to wait.
RunInit ==
    /\ process = "running"
    /\ returncode = -1
    /\ sigterm = FALSE
    /\ to_emit \in [Channels -> SeqsUpTo(Lines, MaxLines)]
    /\ Len(to_emit["stdout"]) + Len(to_emit["stderr"]) <= MaxLines
    /\ emitted = [ch \in Channels |-> <<>>]
    /\ pipe = [ch \in Channels |-> <<>>]
    /\ container = [ch \in Channels |-> <<>>]
    /\ reader_pc = [ch \in Channels |-> "read"]
    /\ reader_line = [ch \in Channels |-> <<>>]
    /\ print_lock = "free"
    /\ status_info = <<>>
    /\ main_pc = "wait"
    /\ ki = "none"
    /\ cancelled = FALSE
    /\ kill_raised = FALSE
    /\ render_failed = FALSE
    /\ ret = NoReturn

\* No run in progress.
RunIdle ==
    /\ process = "exited"
    /\ returncode = -1
    /\ sigterm = FALSE
    /\ to_emit = [ch \in Channels |-> <<>>]
    /\ emitted = [ch \in Channels |-> <<>>]
    /\ pipe = [ch \in Channels |-> <<>>]
    /\ container = [ch \in Channels |-> <<>>]
    /\ reader_pc = [ch \in Channels |-> "done"]
    /\ reader_line = [ch \in Channels |-> <<>>]
    /\ print_lock = "free"
    /\ status_info = <<>>
    /\ main_pc = "idle"
    /\ ki = "none"
    /\ cancelled = FALSE
    /\ kill_raised = FALSE
    /\ render_failed = FALSE
    /\ ret = NoReturn

\* ---- the child process ----

\* The child writes its next line to a pipe that has room for it.
ProcessEmit(ch) ==
    /\ process = "running"
    /\ to_emit[ch] # <<>>
    /\ Len(pipe[ch]) < PipeCap
    /\ pipe' = [pipe EXCEPT ![ch] = Append(@, Head(to_emit[ch]))]
    /\ emitted' = [emitted EXCEPT ![ch] = @ \o Head(to_emit[ch])]
    /\ to_emit' = [to_emit EXCEPT ![ch] = Tail(@)]
    /\ UNCHANGED << driver_vars, merge_vars, process, returncode, sigterm, container, reader_pc, reader_line,
                    print_lock, status_info, main_pc, ki, cancelled,
                    kill_raised, render_failed, ret >>

\* The child exits by itself after its last line, or on a SIGTERM.
ProcessExit ==
    /\ process = "running"
    /\ \/ /\ \A ch \in Channels : to_emit[ch] = <<>>
          /\ returncode' \in {0, 1}
       \/ /\ sigterm
          /\ returncode' = -15
    /\ process' = "exited"
    /\ to_emit' = [ch \in Channels |-> <<>>]
    /\ UNCHANGED << driver_vars, merge_vars, sigterm, emitted, pipe, container, reader_pc, reader_line,
                    print_lock, status_info, main_pc, ki, cancelled,
                    kill_raised, render_failed, ret >>

\* ---- reader(pipe, container, stream_name), lines 92-143 ----

\* Mutant of Captured: an epoch line, which is not displayed, is not kept.
CapturedUnlessEpoch(lines, line) ==
    IF IsEpoch(line) THEN lines ELSE Append(lines, line)

\* Lines 97-98: what the container holds after the reader got the line.
Captured(lines, line) == Append(lines, line)

\* Lines 95-98: readline returns a line, which is appended at once.
ReaderRead(ch) ==
    /\ reader_pc[ch] = "read"
    /\ pipe[ch] # <<>>
    /\ reader_line' = [reader_line EXCEPT ![ch] = Head(pipe[ch])]
    /\ pipe' = [pipe EXCEPT ![ch] = Tail(@)]
    /\ container' = [container EXCEPT ![ch] = Captured(@, Head(pipe[ch]))]
    /\ reader_pc' = [reader_pc EXCEPT ![ch] = "acquire"]
    /\ UNCHANGED << driver_vars, merge_vars, process, returncode, sigterm, to_emit, emitted, print_lock,
                    status_info, main_pc, ki, cancelled, kill_raised,
                    render_failed, ret >>

\* Line 95: readline returns '' at end of file: the write end is closed and
\* the pipe is empty.
ReaderEof(ch) ==
    /\ reader_pc[ch] = "read"
    /\ pipe[ch] = <<>>
    /\ process = "exited"
    /\ reader_pc' = [reader_pc EXCEPT ![ch] = "done"]
    /\ UNCHANGED << driver_vars, merge_vars, process, returncode, sigterm, to_emit, emitted, pipe, container,
                    reader_line, print_lock, status_info, main_pc, ki,
                    cancelled, kill_raised, render_failed, ret >>

\* Mutant of LockAvailable: acquire never waits (no lock at all).
LockNeverHeld(lock) == TRUE

\* Line 106: print_lock.acquire() returns once no thread holds the lock.
LockAvailable(lock) == lock = "free"

\* Lines 105-106.
ReaderAcquire(ch) ==
    /\ reader_pc[ch] = "acquire"
    /\ LockAvailable(print_lock)
    /\ print_lock' = ch
    /\ reader_pc' = [reader_pc EXCEPT ![ch] = "render"]
    /\ UNCHANGED << driver_vars, merge_vars, process, returncode, sigterm, to_emit, emitted, pipe, container,
                    reader_line, status_info, main_pc, ki, cancelled,
                    kill_raised, render_failed, ret >>

\* Lines 137-141: an error raised while rendering is caught inside the loop,
\* after the finally of line 133 released the lock; the line is then printed
\* plainly, without the lock.
AfterRender(failed) == IF failed THEN "fallback" ELSE "read"

\* Mutant of LockAfterRender: the lock is released at the end of the section
\* only, which "continue" (an epoch line) skips.
LockAfterRenderNoFinally(ch, line) == IF IsEpoch(line) THEN ch ELSE "free"

\* Lines 133-135: the finally releases the lock on every exit of the section.
LockAfterRender(ch, line) == "free"

\* Lines 108-141: the line is classified and written; the finally of line 133
\* releases the lock, also after "continue" (an epoch line, which is not
\* written) and after an error of sys.stdout.write.
ReaderRender(ch) ==
    /\ reader_pc[ch] = "render"
    /\ print_lock = ch
    /\ status_info' = IF IsEpoch(reader_line[ch]) THEN reader_line[ch] ELSE status_info
    /\ print_lock' = LockAfterRender(ch, reader_line[ch])
    /\ reader_line' = [reader_line EXCEPT ![ch] = <<>>]
    /\ \E failed \in BOOLEAN :
          /\ failed => ~IsEpoch(reader_line[ch])
          /\ render_failed' = (render_failed \/ failed)
          /\ reader_pc' = [reader_pc EXCEPT ![ch] = AfterRender(failed)]
    /\ UNCHANGED << driver_vars, merge_vars, process, returncode, sigterm, to_emit, emitted, pipe, container,
                    main_pc, ki, cancelled, kill_raised, ret >>

\* Lines 138-141: print(line) of the except block; an error of it is passed
\* over and the reader goes on with the next line.
ReaderFallback(ch) ==
    /\ reader_pc[ch] = "fallback"
    /\ reader_pc' = [reader_pc EXCEPT ![ch] = "read"]
    /\ UNCHANGED << driver_vars, merge_vars, process, returncode, sigterm, to_emit, emitted, pipe, container,
                    reader_line, print_lock, status_info, main_pc, ki,
                    cancelled, kill_raised, render_failed, ret >>

\* ---- the main thread, lines 150-188 ----

reader_frame ==
    << to_emit, emitted, pipe, container, reader_pc, reader_line, print_lock,
       status_info, render_failed >>

\* Mutant of FinallyEnd: no join; the function returns at once.
FinallyEndNoJoin(e) == IF e = "none" THEN "returned" ELSE "raised"

\* Lines 168-178 are over: the exception in flight goes on to the caller,
\* or the readers are joined.
FinallyEnd(e) == IF e = "none" THEN "join" ELSE "raised"

\* Line 151 returns: the child has exited, the finally block has nothing to do.
WaitReturns ==
    /\ main_pc = "wait"
    /\ process = "exited"
    /\ main_pc' = FinallyEnd(ki)
    /\ UNCHANGED << driver_vars, merge_vars, reader_frame, process, returncode, sigterm, ki,
                    cancelled, kill_raised, ret >>

\* Lines 152-167: KeyboardInterrupt in process.wait().  process.terminate()
\* delivers SIGTERM and the main thread waits up to 5 s, or it raises, which
\* line 165 catches before line 167 raises the KeyboardInterrupt again.
SigintDuringWait ==
    /\ main_pc = "wait"
    /\ cancelled' = TRUE
    /\ ki' = "KeyboardInterrupt"
    /\ \E terminate_ok \in BOOLEAN :
          /\ sigterm' = (terminate_ok /\ process = "running")
          /\ main_pc' = IF terminate_ok THEN "grace" ELSE "finally"
    /\ UNCHANGED << driver_vars, merge_vars, reader_frame, process, returncode, kill_raised, ret >>

\* Mutant of HandlerExit: the except block ends without "raise".
HandlerSwallows == "none"

\* Line 167: the exception in flight when the except block is left.
HandlerExit == "KeyboardInterrupt"

\* Line 159 returns within the 5 s: the child has exited; line 167 raises.
GraceReturns ==
    /\ main_pc = "grace"
    /\ process = "exited"
    /\ ki' = HandlerExit
    /\ main_pc' = "finally"
    /\ UNCHANGED << driver_vars, merge_vars, reader_frame, process, returncode, sigterm,
                    cancelled, kill_raised, ret >>

\* process.kill(): SIGKILL ends the child, or the call raises.
Kill(kill_ok) ==
    /\ process' = IF kill_ok THEN "exited" ELSE process
    /\ returncode' = IF kill_ok THEN -9 ELSE returncode
    /\ to_emit' = IF kill_ok THEN [ch \in Channels |-> <<>>] ELSE to_emit
    /\ kill_raised' = (kill_raised \/ ~kill_ok)

\* Lines 160-167: TimeoutExpired after 5 s; process.kill() and process.wait(),
\* or kill raises, which line 165 catches; line 167 raises.
GraceTimeout ==
    /\ main_pc = "grace"
    /\ process = "running"
    /\ \E kill_ok \in BOOLEAN : Kill(kill_ok)
    /\ ki' = HandlerExit
    /\ main_pc' = "finally"
    /\ UNCHANGED << driver_vars, merge_vars, emitted, pipe, container, reader_pc, reader_line, print_lock,
                    status_info, render_failed, sigterm, cancelled, ret >>

\* A second SIGINT during line 159: the KeyboardInterrupt leaves the except
\* block (line 165 catches Exception only).
SigintDuringGrace ==
    /\ main_pc = "grace"
    /\ ki' = "KeyboardInterrupt"
    /\ main_pc' = "finally"
    /\ UNCHANGED << driver_vars, merge_vars, reader_frame, process, returncode, sigterm, cancelled,
                    kill_raised, ret >>

\* Lines 168-178: the child still runs: terminate and wait 1 s; if terminate
\* raises, the bare except kills.
FinallyBlock ==
    /\ main_pc = "finally"
    /\ IF process = "running"
       THEN \E terminate_ok \in BOOLEAN, kill_ok \in BOOLEAN :
               IF terminate_ok
               THEN /\ sigterm' = TRUE
                    /\ main_pc' = "finally_wait"
                    /\ UNCHANGED << process, returncode, to_emit, kill_raised >>
               ELSE /\ Kill(kill_ok)
                    /\ main_pc' = FinallyEnd(ki)
                    /\ UNCHANGED sigterm
       ELSE /\ main_pc' = FinallyEnd(ki)
            /\ UNCHANGED << process, returncode, to_emit, kill_raised, sigterm >>
    /\ UNCHANGED << driver_vars, merge_vars, emitted, pipe, container, reader_pc, reader_line, print_lock,
                    status_info, render_failed, ki, cancelled, ret >>

\* Line 173 returns within the 1 s.
FinallyWaitReturns ==
    /\ main_pc = "finally_wait"
    /\ process = "exited"
    /\ main_pc' = FinallyEnd(ki)
    /\ UNCHANGED << driver_vars, merge_vars, reader_frame, process, returncode, sigterm, ki,
                    cancelled, kill_raised, ret >>

\* Lines 174-178: TimeoutExpired, or a KeyboardInterrupt, in line 173: the
\* bare except kills the child; an error of kill is passed over.
FinallyWaitKills ==
    /\ main_pc = "finally_wait"
    /\ process = "running"
    /\ \E kill_ok \in BOOLEAN : Kill(kill_ok)
    /\ main_pc' = FinallyEnd(ki)
    /\ UNCHANGED << driver_vars, merge_vars, emitted, pipe, container, reader_pc, reader_line, print_lock,
                    status_info, render_failed, sigterm, ki, cancelled, ret >>

\* Lines 180-188: both readers have ended; the result is returned.
JoinReturns ==
    /\ main_pc = "join"
    /\ \A ch \in Channels : reader_pc[ch] = "done"
    /\ ret' = [returncode |-> returncode,
               stdout |-> Join(container["stdout"]),
               stderr |-> Join(container["stderr"])]
    /\ main_pc' = "returned"
    /\ UNCHANGED << driver_vars, merge_vars, reader_frame, process, returncode, sigterm, ki,
                    cancelled, kill_raised >>

\* A SIGINT during Thread.join, lines 180-181, which no try encloses.
SigintDuringJoin ==
    /\ main_pc = "join"
    /\ ki' = "KeyboardInterrupt"
    /\ main_pc' = "raised"
    /\ UNCHANGED << driver_vars, merge_vars, reader_frame, process, returncode, sigterm, cancelled,
                    kill_raised, ret >>

RunNext ==
    \/ \E ch \in Channels : ProcessEmit(ch)
    \/ ProcessExit
    \/ \E ch \in Channels : ReaderRead(ch)
    \/ \E ch \in Channels : ReaderEof(ch)
    \/ \E ch \in Channels : ReaderAcquire(ch)
    \/ \E ch \in Channels : ReaderRender(ch)
    \/ \E ch \in Channels : ReaderFallback(ch)
    \/ WaitReturns
    \/ SigintDuringWait
    \/ GraceReturns
    \/ GraceTimeout
    \/ SigintDuringGrace
    \/ FinallyBlock
    \/ FinallyWaitReturns
    \/ FinallyWaitKills
    \/ JoinReturns
    \/ SigintDuringJoin

----------------------------------------------------------------------------
\* deep_update and compare_configs, lines 22-60.
\*
\* A configuration document is a mapping from keys to values; a value is a
\* scalar or a mapping again.  Values carry their kind: Scalar(s) or
\* Mapping(f), f a function on a set of keys.  A document itself is such a
\* function f.

Keys == {"a", "b"}

\* Iteration order of dict.items(): the order of the keys in the document.
KeyOrder == <<"a", "b">>

\* The delete sentinel, line 29.
DeleteSentinel == "**delete**"

Scalars == {"x", "y", DeleteSentinel}

Scalar(s) == [s |-> s]
Mapping(f) == [m |-> f]

\* isinstance(v, collections.abc.Mapping), line 30; isinstance(v, dict), line 49.
IsMapping(v) == "m" \in DOMAIN v

\* v == "**delete**", line 29.
IsDelete(v) == v = Scalar(DeleteSentinel)

EmptyDict == [k \in {} |-> Scalar("x")]

\* All mappings from some keys to values in V.
MapsOver(V) == UNION { [K -> V] : K \in SUBSET Keys }

\* The values nested to depth at most n.
RECURSIVE Values(_)
Values(n) ==
    { Scalar(s) : s \in Scalars } \cup
    (IF n = 0 THEN {} ELSE { Mapping(f) : f \in MapsOver(Values(n - 1)) })

\* The number of keys of a document, nested ones included.
RECURSIVE Size(_)
RECURSIVE SumSizes(_, _)
SumSizes(f, K) ==
    IF K = {} THEN 0
    ELSE LET k == CHOOSE x \in K : TRUE
         IN (IF IsMapping(f[k]) THEN Size(f[k].m) ELSE 0) + SumSizes(f, K \ {k})
Size(f) == Cardinality(DOMAIN f) + SumSizes(f, DOMAIN f)

\* The documents of depth at most MaxDepth with at most MaxEntries keys, each
\* with its size, and the sequence of the sets of the documents with at most
\* 0, 1, ... n keys.
SizedDocuments ==
    { p \in { <<f, Size(f)>> : f \in MapsOver(Values(MaxDepth - 1)) } :
        p[2] <= MaxEntries }
RECURSIVE DocumentsUpTo(_)
DocumentsUpTo(n) ==
    IF n < 0 THEN <<>>
    ELSE Append(DocumentsUpTo(n - 1),
                { p[1] : p \in { q \in SizedDocuments : q[2] <= n } })
DocumentsBySize == DocumentsUpTo(MaxEntries)
Documents(n) == DocumentsBySize[n + 1]

\* Mutant of Put: the assignment forgets the other keys of d.
PutAlone(d, k, v) == [x \in {k} |-> v]

\* d[k] = v, and d.pop(k, None).
Put(d, k, v) == [x \in DOMAIN d \cup {k} |-> IF x = k THEN v ELSE d[x]]
Pop(d, k) == [x \in DOMAIN d \ {k} |-> d[x]]

\* What a call leaves: it returned (ok) or raised, and the dictionary d as
\* the call left it (deep_update changes d in place).
Returns(d) == [ok |-> TRUE, d |-> d]
Raises(d) == [ok |-> FALSE, d |-> d]

\* deep_update(d, u), lines 22-35; UpdateItems is the loop of line 28 over
\* the keys ks that are still to come.
RECURSIVE deep_update(_, _)
RECURSIVE UpdateItems(_, _, _)
UpdateItems(d, u, ks) ==
    IF ks = <<>> THEN Returns(d)
    ELSE LET k == Head(ks)
             rest == Tail(ks)
         IN  IF k \notin DOMAIN u THEN UpdateItems(d, u, rest)
             ELSE IF IsDelete(u[k]) THEN UpdateItems(Pop(d, k), u, rest)
             ELSE IF ~IsMapping(u[k]) THEN UpdateItems(Put(d, k, u[k]), u, rest)
             ELSE IF k \notin DOMAIN d
             THEN \* d.get(k, {}) is a new dict, lost if the call raises
                  LET r == deep_update(EmptyDict, u[k].m)
                  IN  IF r.ok THEN UpdateItems(Put(d, k, Mapping(r.d)), u, rest)
                      ELSE Raises(d)
             ELSE IF IsMapping(d[k])
             THEN LET r == deep_update(d[k].m, u[k].m)
                  IN  IF r.ok THEN UpdateItems(Put(d, k, Mapping(r.d)), u, rest)
                      ELSE Raises(Put(d, k, Mapping(r.d)))
             ELSE \* d[k] is a scalar: the loop over an empty u[k] returns it,
                  \* pop, get or item assignment on it raises
                  IF DOMAIN u[k].m = {} THEN UpdateItems(d, u, rest)
                  ELSE Raises(d)
deep_update(d, u) == UpdateItems(d, u, KeyOrder)

\* The entries of the list compare_configs returns, lines 46, 52 and 58.
Added(path, v) == [kind |-> "add", path |-> path, old |-> v, new |-> v]

\* Mutant of Changed: a changed value is reported as an addition.
ChangedAsAdded(path, o, v) == [kind |-> "add", path |-> path, old |-> v, new |-> v]

Changed(path, o, v) == [kind |-> "change", path |-> path, old |-> o, new |-> v]
Removed(path, o) == [kind |-> "remove", path |-> path, old |-> o, new |-> o]

\* compare_configs(original, updated, path), lines 37-60: the loop of line 43
\* and the loop of line 55.
RECURSIVE compare_configs(_, _, _)
RECURSIVE CompareUpdated(_, _, _, _)
RECURSIVE CompareOriginal(_, _, _, _)
CompareUpdated(original, updated, path, ks) ==
    IF ks = <<>> THEN <<>>
    ELSE LET key == Head(ks)
             new_path == Append(path, key)
             here ==
                IF key \notin DOMAIN updated THEN <<>>
                ELSE IF key \notin DOMAIN original
                THEN << Added(new_path, updated[key]) >>
                ELSE IF IsMapping(updated[key]) /\ IsMapping(original[key])
                THEN compare_configs(original[key].m, updated[key].m, new_path)
                ELSE IF original[key] # updated[key]
                THEN << Changed(new_path, original[key], updated[key]) >>
                ELSE <<>>
         IN  here \o CompareUpdated(original, updated, path, Tail(ks))
CompareOriginal(original, updated, path, ks) ==
    IF ks = <<>> THEN <<>>
    ELSE LET key == Head(ks)
             here ==
                IF key \in DOMAIN original /\ key \notin DOMAIN updated
                THEN << Removed(Append(path, key), original[key]) >>
                ELSE <<>>
         IN  here \o CompareOriginal(original, updated, path, Tail(ks))
compare_configs(original, updated, path) ==
    CompareUpdated(original, updated, path, KeyOrder)
        \o CompareOriginal(original, updated, path, KeyOrder)

\* ---- configuration documents being merged and compared ----

NotCalled == Raises(EmptyDict)

\* Three documents: base and the overlays A and B.
MergeInit ==
    /\ doc_base \in Documents(MaxEntries)
    /\ doc_A \in Documents(MaxEntries - Size(doc_base))
    /\ doc_B \in Documents(MaxEntries - Size(doc_base) - Size(doc_A))
    /\ merged_A = NotCalled
    /\ merged_AB = NotCalled
    /\ overlay_AB = NotCalled
    /\ merged_overlay = NotCalled
    /\ changes = <<>>
    /\ config = doc_base
    /\ merge_pc = "start"

\* No merge in progress.
MergeIdle ==
    /\ doc_base = EmptyDict
    /\ doc_A = EmptyDict
    /\ doc_B = EmptyDict
    /\ merged_A = NotCalled
    /\ merged_AB = NotCalled
    /\ overlay_AB = NotCalled
    /\ merged_overlay = NotCalled
    /\ changes = <<>>
    /\ config = EmptyDict
    /\ merge_pc = "idle"

\* compare_configs(original, updated) on two documents (as in line 480).
CompareConfigs ==
    /\ merge_pc = "start"
    /\ changes' = compare_configs(doc_base, doc_A, <<>>)
    /\ merge_pc' = "compared"
    /\ UNCHANGED << driver_vars, run_vars, doc_base, doc_A, doc_B, merged_A,
                    merged_AB, overlay_AB, merged_overlay, config >>

\* deep_update(base, A), as in line 478.
DeepUpdateA ==
    /\ merge_pc = "compared"
    /\ merged_A' = deep_update(doc_base, doc_A)
    /\ merge_pc' = "merged_A"
    /\ UNCHANGED << driver_vars, run_vars, doc_base, doc_A, doc_B, merged_AB,
                    overlay_AB, merged_overlay, changes, config >>

\* Mutant of Then: the second overlay is not applied.
ThenNothing(first, u) == first

\* One deep_update after another: the second one is not reached when the
\* first one raised.
Then(first, u) == IF first.ok THEN deep_update(first.d, u) ELSE first

\* deep_update(deep_update(base, A), B).
DeepUpdateB ==
    /\ merge_pc = "merged_A"
    /\ merged_AB' = Then(merged_A, doc_B)
    /\ merge_pc' = "merged_AB"
    /\ UNCHANGED << driver_vars, run_vars, doc_base, doc_A, doc_B, merged_A,
                    overlay_AB, merged_overlay, changes, config >>

\* deep_update(A, B).
DeepUpdateOverlays ==
    /\ merge_pc = "merged_AB"
    /\ overlay_AB' = deep_update(doc_A, doc_B)
    /\ merge_pc' = "overlay_AB"
    /\ UNCHANGED << driver_vars, run_vars, doc_base, doc_A, doc_B, merged_A,
                    merged_AB, merged_overlay, changes, config >>

\* deep_update(base, deep_update(A, B)).
DeepUpdateMerged ==
    /\ merge_pc = "overlay_AB"
    /\ merged_overlay' =
          IF overlay_AB.ok THEN deep_update(doc_base, overlay_AB.d)
          ELSE Raises(doc_base)
    /\ merge_pc' = "done"
    /\ UNCHANGED << driver_vars, run_vars, doc_base, doc_A, doc_B, merged_A,
                    merged_AB, overlay_AB, changes, config >>

\* dict.update: d.update(u) sets d[k] = u[k] for every key of u, whatever the
\* two values are.
update(d, u) ==
    [x \in DOMAIN d \cup DOMAIN u |-> IF x \in DOMAIN u THEN u[x] ELSE d[x]]

\* Line 232 of run_training_with_retry: config.update(oom_config), with the
\* overlay A as outofmemory.toml.
ConfigUpdate ==
    /\ merge_pc = "done"
    /\ config' = update(config, doc_A)
    /\ merge_pc' = "updated"
    /\ UNCHANGED << driver_vars, run_vars, doc_base, doc_A, doc_B, merged_A,
                    merged_AB, overlay_AB, merged_overlay, changes >>

MergeNext ==
    \/ CompareConfigs
    \/ DeepUpdateA
    \/ DeepUpdateB
    \/ DeepUpdateOverlays
    \/ DeepUpdateMerged
    \/ ConfigUpdate

----------------------------------------------------------------------------
\* The specifications.

DriverNext ==
    \/ UnitBegin
    \/ StageRename
    \/ StageMoveFails
    \/ StageCopyBegin
    \/ StageCopyEnd
    \/ StageCopyFails
    \/ SigintDuringStage
    \/ WriteConfig
    \/ Attempt1
    \/ Attempt2
    \/ Finally
    \/ RestoreRename
    \/ RestoreFails
    \/ RestoreCopyBegin
    \/ RestoreCopyEnd
    \/ RestoreCopyFails
    \/ SigintDuringRestore
    \/ AfterFinally
    \/ Upload
    \/ Delete
    \/ Summary

\* The driver outside a run: a batch that is about to start.
DriverIdle ==
    /\ DriverInit
    /\ pretrained_name /\ is_abs /\ ~same_path /\ same_fs /\ ~test_mode
    /\ perm = "full" /\ temp = "none"

Init == DriverInit /\ RunIdle /\ MergeIdle

Next == DriverNext

\* The batch driver.
Spec == Init /\ [][Next]_vars

\* The finally block of one unit, lines 581-613.  It is entered from the
\* staging code, from the config write and from the job, with or without an
\* exception in flight, and with the model file in whatever state staging and
\* the restores of earlier units left it at the two paths.
UnstageInit ==
    /\ pretrained_name \in BOOLEAN
    /\ is_abs \in BOOLEAN
    /\ same_path \in BOOLEAN
    /\ same_fs \in BOOLEAN
    /\ test_mode = FALSE
    /\ perm \in {"none", "partial", "full"}
    /\ temp \in {"none", "partial", "full"}
    /\ (~pretrained_name) => (is_abs /\ ~same_path)
    /\ (~pretrained_name \/ ~is_abs) => (same_fs /\ perm = "full" /\ temp = "none")
    /\ same_path => (same_fs /\ temp = perm)
    /\ folder_exists = [u \in Units |-> TRUE]
    /\ cfg_file = [u \in Units |-> "none"]
    /\ heap = [o \in Objects |-> "base"]
    /\ config_ref = "copy"
    /\ pc = "finally"
    /\ idx = 1
    /\ original_model_path = pretrained_name
    /\ temp_model_path = (pretrained_name /\ is_abs)
    /\ result = None
    /\ should_skip = FALSE
    /\ rclone_result = NoUpload
    /\ exc \in {"none", "Exception", "KeyboardInterrupt"}
    /\ (pretrained_name /\ ~is_abs) => (exc = "Exception")
    /\ retry_i = 0
    /\ sigint_handler = original_sigint_handler
    /\ processed_folders = {}
    /\ skipped_folders = {}
    /\ attempts = <<>>
    /\ launches = <<>>
    /\ oom_config = "unread"
    /\ first_result = None
    /\ retry_ready = FALSE
    /\ staged = (temp # "none")
    /\ restore_tried = FALSE
    /\ restore_ok = FALSE
    /\ restore_exc = "none"
    /\ sigint_ignored = FALSE
    /\ start_perm = perm
    /\ start_temp = temp
    /\ began = [u \in Units |-> u = 1]
    /\ quota_hit = 0
    /\ overridden = FALSE
    /\ init_perm = perm
    /\ init_temp = temp

InitUnstage == UnstageInit /\ RunIdle /\ MergeIdle

NextUnstage ==
    \/ Finally
    \/ RestoreRename
    \/ RestoreFails
    \/ RestoreCopyBegin
    \/ RestoreCopyEnd
    \/ RestoreCopyFails
    \/ SigintDuringRestore

\* The finally block, run by a main thread that does not stop: a step that
\* can be taken is taken.
SpecUnstage == InitUnstage /\ [][NextUnstage]_vars /\ WF_vars(NextUnstage)

InitRun == RunInit /\ DriverIdle /\ MergeIdle

NextRun == RunNext

\* One run of run_command_and_stream_output.
SpecRun == InitRun /\ [][NextRun]_vars

\* One run that no SIGINT disturbs: the child writes its lines and exits, the
\* readers drain the pipes, the main thread waits and joins.  The operating
\* system lets the child run, and the interpreter lets each reader thread
\* and the main thread run, again and again.
ChildStep == (\E ch \in Channels : ProcessEmit(ch)) \/ ProcessExit

ReaderStep(ch) ==
    \/ ReaderRead(ch)
    \/ ReaderEof(ch)
    \/ ReaderAcquire(ch)
    \/ ReaderRender(ch)
    \/ ReaderFallback(ch)

MainStep == WaitReturns \/ JoinReturns

NextStream ==
    \/ ChildStep
    \/ \E ch \in Channels : ReaderStep(ch)
    \/ MainStep

StreamFairness ==
    /\ WF_vars(ChildStep)
    /\ WF_vars(ReaderStep("stdout"))
    /\ WF_vars(ReaderStep("stderr"))
    /\ WF_vars(MainStep)

SpecStream == InitRun /\ [][NextStream]_vars /\ StreamFairness

InitMerge == DriverIdle /\ RunIdle /\ MergeInit

NextMerge == MergeNext

\* deep_update and compare_configs applied to documents.
SpecMerge == InitMerge /\ [][NextMerge]_vars

----------------------------------------------------------------------------
\* Properties of the batch driver (Spec).

\* run_training_with_retry has returned to the main loop.
Returned ==
    /\ attempts # <<>>
    /\ pc # "attempt2"
    /\ attempts[Len(attempts)].kind # "KeyboardInterrupt"

\* The first attempt failed and its error output names an out-of-memory error.
FirstAttemptOOM ==
    /\ first_result.returncode # 0
    /\ \/ Contains(first_result.stderr, "CUDA out of memory")
       \/ Contains(first_result.stderr, "torch.cuda.OutOfMemoryError")

\* C1 as stated: a second attempt is launched if and only if the first
\* attempt's exit status is non-zero, its error output contains an
\* out-of-memory signature and the OOM override configuration is available;
\* in every other case the first attempt's outcome is the final outcome.
C1_RetryIffAvailable ==
    Returned =>
        /\ (Len(attempts) >= 2) <=>
              (FirstAttemptOOM /\ oom_config \in {"good", "malformed"})
        /\ (Len(attempts) = 1) => (result = first_result)

\* C1, amended: a second attempt is launched if and only if the first
\* attempt failed with an out-of-memory signature, outofmemory.toml exists,
\* it was loaded and the unit's config file was rewritten without error; in
\* every other case in which the function returns, the first attempt's
\* outcome is the final outcome.
C1_RetryIff ==
    Returned =>
        /\ (Len(attempts) >= 2) <=>
              (FirstAttemptOOM /\ oom_config = "good" /\ retry_ready)
        /\ (Len(attempts) = 1) => (result = first_result)

\* A unit whose job was retried after an out-of-memory failure.
C1_Witness ==
    /\ Returned
    /\ Len(attempts) = 2
    /\ FirstAttemptOOM
    /\ oom_config = "good"

\* C2: a unit's job is launched at most twice, and the second attempt's
\* outcome is final whatever it is: a second out-of-memory failure is not
\* retried.
C2_AtMostTwoLaunches ==
    /\ Len(attempts) <= 2
    /\ (Returned /\ Len(attempts) = 2 /\ attempts[2].kind = "completed") =>
          (result = attempts[2].result)

\* A second attempt that failed with an out-of-memory error again.
C2_Witness ==
    /\ Returned
    /\ Len(attempts) = 2
    /\ attempts[2].kind = "completed"
    /\ attempts[2].result.returncode # 0
    /\ Contains(attempts[2].result.stderr, "CUDA out of memory")
    /\ result = attempts[2].result

\* The file was complete in one location when the unit began, or when the
\* batch began.
StartExactlyOne ==
    \/ start_perm = "full" /\ start_temp = "none"
    \/ start_perm = "none" /\ start_temp = "full"

InitExactlyOne ==
    \/ init_perm = "full" /\ init_temp = "none"
    \/ init_perm = "none" /\ init_temp = "full"

\* C3: stage followed by unstage, both succeeding, leaves the file exactly
\* at the permanent location: present there, absent from the staged location.
C3_StageUnstage ==
    (staged /\ restore_ok /\ ~same_path /\ StartExactlyOne) =>
        (perm = "full" /\ temp = "none")

\* A file that was copied to the other filesystem and came back, the restore
\* succeeding after a retry.
C3_Witness ==
    /\ staged
    /\ restore_ok
    /\ ~same_fs
    /\ start_perm = "full"
    /\ retry_i > 0
    /\ perm = "full"
    /\ temp = "none"

\* C4 as stated: at every observable point, interruption included, the
\* complete file exists in exactly one of its two locations, never both and
\* never neither.
C4_ExactlyOneLocation ==
    (InitExactlyOne /\ ~same_path) => ((perm = "full") # (temp = "full"))

C6_StopDeferred ==
    (sigint_ignored /\ restore_ok /\ pc = "after_finally") => (exc # "none")

\* C10: when a failed upload reports the quota, the batch halts at once: the
\* unit's input directory is not deleted and no later unit is processed,
\* modified or deleted.
C10_QuotaHalts ==
    (quota_hit # 0) =>
        /\ pc = "exited"
        /\ folder_exists[quota_hit]
        /\ quota_hit \notin processed_folders
        /\ \A u \in Units :
              (u > quota_hit) =>
                  /\ ~began[u]
                  /\ folder_exists[u]
                  /\ cfg_file[u] = "none"
                  /\ u \notin processed_folders

\* The first unit's upload reported the quota; a later unit is waiting.
C10_Witness ==
    /\ quota_hit = 1
    /\ quota_hit < NumUnits
    /\ pc = "exited"
    /\ exc = "SystemExit"

\* C11: a unit's input directory is deleted only if the unit's final job
\* outcome has exit status 0 and the upload of its output succeeded; after
\* any failure the directory is left in place.
C11_DeleteOnlyAfterSuccess ==
    [][\A u \in Units :
          (folder_exists[u] /\ ~folder_exists'[u]) =>
              /\ u = idx
              /\ result.returncode = 0
              /\ rclone_result.returncode = 0]_vars

\* The first unit was deleted after its upload; the second one failed and
\* was left in place.
C11_Witness ==
    /\ ~folder_exists[1]
    /\ 1 \in processed_folders
    /\ idx > 2
    /\ folder_exists[2]
    /\ 2 \notin processed_folders

\* The driver has finished with unit u: it went on to the next unit, or the
\* quota-exceeded upload failure of u ended the script.
FinishedWith(u) ==
    \/ u < idx
    \/ u = idx /\ pc = "exited" /\ exc = "SystemExit"

\* C12 as stated: after the driver has finished with a unit, whatever the
\* outcome (the quota-exceeded upload failure included), the unit's temporary
\* config file no longer exists.
C12_ConfigRemoved ==
    \A u \in Units : FinishedWith(u) => (cfg_file[u] = "none")

\* C13 as stated: in the summary the processed, the remaining and the
\* skipped units are pairwise disjoint sets.
C13_ReportedSetsDisjoint ==
    (pc = "summary") =>
        /\ processed_folders \cap remaining_folders = {}
        /\ processed_folders \cap skipped_folders = {}
        /\ remaining_folders \cap skipped_folders = {}

\* C14 as stated: an exception raised while a unit's config is built, its
\* model file staged or its job launched never ends the driver's loop.
C14_FailuresContained ==
    (exc = "Exception") => (pc # "exited")

\* C15 as stated, its first part: for every configuration of the two paths,
\* a unit whose model file is at neither path is skipped before any launch:
\* no training subprocess is started for it.
C15_MissingArtifactSkipped ==
    (/\ idx \in Units
     /\ began[idx]
     /\ pretrained_name
     /\ is_abs
     /\ start_perm = "none"
     /\ start_temp = "none") =>
        attempts = <<>>

\* C23: whenever a retry happens, the unit's config file has been rewritten
\* with the override-merged configuration before the second attempt is
\* launched, and the second attempt is launched with the command of the
\* first one (the same config file path).
C23_RetryRewritesConfig ==
    /\ (pc = "attempt2") => (cfg_file[idx] = "oom" /\ retry_ready)
    /\ (Len(launches) >= 2) =>
          /\ launches[1].config = "base"
          /\ launches[2].config = "oom"
          /\ launches[2].command = launches[1].command

\* A unit whose job was launched a second time.
C23_Witness ==
    /\ Len(launches) = 2
    /\ launches[2].config = "oom"
    /\ cfg_file[idx] = "oom"

\* Launch n of the unit's job raised an exception.
LaunchRaised(n) == Len(attempts) >= n /\ attempts[n].kind = "Exception"

\* Loading the override, rewriting the config file or the second launch
\* raised an exception (lines 218-240).
RetryPathRaised ==
    \/ oom_config = "malformed"
    \/ oom_config = "good" /\ ~retry_ready
    \/ LaunchRaised(2)

\* C24 as stated: an exception raised while launching the first attempt,
\* loading or merging the override, rewriting the config file or launching
\* the second attempt is converted into a failed outcome whose diagnostic
\* text is the exception text.
C24_ExceptionBecomesOutcome ==
    (Returned /\ (LaunchRaised(1) \/ RetryPathRaised)) =>
        /\ result.returncode # 0
        /\ result.stderr = ExceptionText

\* C24, amended: every such exception is caught inside
\* run_training_with_retry and the outcome returned is a failed one; for an
\* exception of the first launch it is a synthetic outcome with exit status 1
\* and the exception text; for an exception on the retry path it is the
\* first attempt's failed outcome, unchanged, without the exception text.
C24_ExceptionBecomesFailure ==
    Returned =>
        /\ (pc = "finally") => (exc = "none")
        /\ LaunchRaised(1) =>
              /\ result.returncode = 1
              /\ result.stderr = ExceptionText
        /\ RetryPathRaised =>
              /\ result = first_result
              /\ result.returncode # 0
              /\ result.stderr # ExceptionText

\* A second launch that raised, after an out-of-memory failure.
C24_Witness ==
    /\ Returned
    /\ LaunchRaised(2)
    /\ FirstAttemptOOM
    /\ result = first_result

\* C25: the restore move is retried only after a PermissionError and is
\* called at most max_retries times; a move that failed for good raises
\* nothing into the driver, and the restore always comes to an end.
C25_RestoreBounded ==
    /\ [](retry_i < max_retries)
    /\ [][(retry_i' > retry_i) =>
              /\ restore_exc' = "PermissionError"
              /\ retry_i' = retry_i + 1
              /\ retry_i' < max_retries]_vars
    /\ [][(pc \in {"restore", "restore_copy"}) => (exc' = exc)]_vars
    /\ (pc = "restore") ~> (pc = "after_finally")

\* A restore that failed max_retries times with a PermissionError, after
\* which the driver goes on.
C25_Witness ==
    /\ pc = "after_finally"
    /\ restore_tried
    /\ ~restore_ok
    /\ restore_exc = "PermissionError"
    /\ retry_i = max_retries - 1
    /\ exc = "none"

\* C26 as stated: when the job succeeded and the move back failed after all
\* retries, the unit is still treated as successful and the model file
\* remains at the staging path, where the next unit's stage reuses it.
C26_RestoreFailureKeepsStaged ==
    (/\ pc = "after_finally"
     /\ staged
     /\ StartExactlyOne
     /\ ~same_path
     /\ restore_tried
     /\ ~restore_ok
     /\ restore_exc = "PermissionError"
     /\ retry_i = max_retries - 1
     /\ exc = "none"
     /\ result.returncode = 0) =>
        /\ ~JobFailed(result)
        /\ temp = "full"
        /\ perm = "none"
        /\ StageDecision = "reuse"

\* C27: whatever the restore move does, SIGINT is ignored only while the
\* move is under way; when the driver moves on, the disposition is the one
\* that was in force before.
C27_SigintDispositionRestored ==
    /\ (pc \in {"restore", "restore_copy"}) => (sigint_handler = "SIG_IGN")
    /\ (pc \notin {"restore", "restore_copy"}) =>
          (sigint_handler = original_sigint_handler)

\* A restore that failed after all retries; the driver has moved on.
C27_Witness ==
    /\ pc \in {"after_finally", "upload"}
    /\ restore_tried
    /\ ~restore_ok
    /\ retry_i = max_retries - 1
    /\ sigint_handler = "default"

C32_OverrideStaysInUnit ==
    /\ heap["base_config"] = "base"
    /\ (pc = "attempt1") => (cfg_file[idx] = "base")
    /\ (launches # <<>>) => (launches[1].config = "base")

\* The second unit's config file is written and its first launch is about
\* to be made, after the first unit's config was updated with the override.
C32_Witness ==
    /\ idx = 2
    /\ pc = "attempt1"
    /\ overridden
    /\ heap["copy"] = "base"
    /\ cfg_file[2] = "base"

\* A launch of the current unit's job was cancelled by the operator.
JobCancelled ==
    \E n \in DOMAIN attempts : attempts[n].kind = "KeyboardInterrupt"

\* C33: a cancellation during a job attempt is not turned into a failed
\* outcome and is followed by no other launch; the KeyboardInterrupt stays in
\* flight through the finally block, where the staged file is moved back, and
\* ends the batch: nothing is uploaded or deleted for the unit, the unit is
\* not reported as processed, and no later unit begins.
C33_CancellationEndsBatch ==
    JobCancelled =>
        /\ attempts[Len(attempts)].kind = "KeyboardInterrupt"
        /\ exc = "KeyboardInterrupt"
        /\ result = None
        /\ pc \in {"finally", "restore", "restore_copy", "after_finally", "exited"}
        /\ (staged /\ pc \in {"after_finally", "exited"}) => restore_tried
        /\ rclone_result = NoUpload
        /\ folder_exists[idx]
        /\ idx \notin processed_folders
        /\ \A v \in Units : (v > idx) =>
              ~began[v] /\ folder_exists[v] /\ cfg_file[v] = "none"

\* The batch has ended on a cancellation of the first unit's second attempt,
\* after the staged file was moved back; the second unit was never begun.
C33_Witness ==
    /\ pc = "exited"
    /\ idx = 1
    /\ Len(attempts) = 2
    /\ attempts[2].kind = "KeyboardInterrupt"
    /\ exc = "KeyboardInterrupt"
    /\ staged
    /\ restore_ok
    /\ perm = "full"
    /\ ~began[2]
----------------------------------------------------------------------------
\* Properties of one run of run_command_and_stream_output (SpecRun).

C9_RaisedAfterReadersStopped ==
    (cancelled /\ main_pc = "raised" /\ process = "exited") =>
        (\A ch \in Channels : reader_pc[ch] = "done")

C31_NoDeadlock ==
    /\ (reader_pc["stdout"] = "acquire") ~> (reader_pc["stdout"] = "render")
    /\ (reader_pc["stderr"] = "acquire") ~> (reader_pc["stderr"] = "render")
    /\ (Len(pipe["stdout"]) = PipeCap) ~> (Len(pipe["stdout"]) < PipeCap)
    /\ (Len(pipe["stderr"]) = PipeCap) ~> (Len(pipe["stderr"]) < PipeCap)
    /\ <>[](process = "exited" /\ \A ch \in Channels : to_emit[ch] = <<>>)
    /\ <>[](\A ch \in Channels : reader_pc[ch] = "done" /\ pipe[ch] = <<>>)
    /\ <>[](print_lock = "free")
    /\ <>[](main_pc = "returned")

\* A run that returned after the child wrote on both channels, an epoch
\* line among the lines.
C31_Witness ==
    /\ main_pc = "returned"
    /\ ~cancelled
    /\ ki = "none"
    /\ \A ch \in Channels : container[ch] # <<>>
    /\ status_info # <<>>
    /\ print_lock = "free"
----------------------------------------------------------------------------
\* Properties of deep_update and compare_configs (SpecMerge).

\* The key paths of a document, the value at a key path, the prefixes of a
\* key path.
RECURSIVE Paths(_)
Paths(f) ==
    UNION { {<<k>>} \cup
            (IF IsMapping(f[k]) THEN { <<k>> \o p : p \in Paths(f[k].m) } ELSE {}) :
            k \in DOMAIN f }

RECURSIVE At(_, _)
At(f, p) == IF Len(p) = 1 THEN f[p[1]] ELSE At(f[p[1]].m, Tail(p))

Prefixes(p) == { SubSeq(p, 1, n) : n \in 1..Len(p) }
ProperPrefixes(p) == { SubSeq(p, 1, n) : n \in 1..(Len(p) - 1) }

\* The key paths of a document, each with its scalar or the fact that it
\* holds a mapping.
Flat(f) ==
    { <<p, IF IsMapping(At(f, p)) THEN Mapping(EmptyDict) ELSE At(f, p)>> :
        p \in Paths(f) }

\* deep_update(base, A) has been called.
Merged == merge_pc \in {"merged_A", "merged_AB", "overlay_AB", "done", "updated"}

\* The overlay u holds the delete sentinel at p or at a prefix of p.
DeletedBy(u, p) ==
    \E q \in Prefixes(p) : q \in Paths(u) /\ IsDelete(At(u, q))

\* The overlay u holds a scalar at a proper prefix of p.
ReplacedBy(u, p) ==
    \E q \in ProperPrefixes(p) : q \in Paths(u) /\ ~IsMapping(At(u, q))

\* d holds a scalar where u holds a non-empty mapping.
Clash(d, u) ==
    \E q \in Paths(d) \cap Paths(u) :
        /\ ~IsMapping(At(d, q))
        /\ IsMapping(At(u, q))
        /\ DOMAIN At(u, q).m # {}

\* C16 as stated: after deep_update(base, overlay) every key path of base or
\* of overlay is a key path of the result, unless the overlay marks it (or a
\* key above it) with the delete sentinel.
C16_AllKeyPathsKept ==
    (Merged /\ merged_A.ok) =>
        \A p \in Paths(doc_base) \cup Paths(doc_A) :
            ~DeletedBy(doc_A, p) => (p \in Paths(merged_A.d))

\* C16, amended: deep_update(base, overlay) raises exactly when base holds a
\* scalar where the overlay holds a non-empty mapping; when it returns, every
\* key path of base or of overlay is a key path of the result unless the
\* overlay holds the delete sentinel at it or above it, or a scalar above it.
C16_KeyPathsKept ==
    Merged =>
        /\ merged_A.ok <=> ~Clash(doc_base, doc_A)
        /\ merged_A.ok =>
              \A p \in Paths(doc_base) \cup Paths(doc_A) :
                  (~DeletedBy(doc_A, p) /\ ~ReplacedBy(doc_A, p)) =>
                      (p \in Paths(merged_A.d))

\* A merge into a nested mapping that deletes a nested key and keeps the
\* mapping it was in.
C16_Witness ==
    /\ Merged
    /\ merged_A.ok
    /\ \E p \in Paths(doc_A) \cap Paths(doc_base) :
          /\ Len(p) = 2
          /\ IsDelete(At(doc_A, p))
          /\ p \notin Paths(merged_A.d)
    /\ \E p \in Paths(doc_base) : p \in Paths(merged_A.d)

\* The overlay u is the delete sentinel at key path p and nothing else.
SentinelAt(u, p) ==
    /\ p \in Paths(u)
    /\ IsDelete(At(u, p))
    /\ Paths(u) = Prefixes(p)

\* C17 as stated: deep_update with an overlay that holds the delete sentinel
\* at key path p removes the key at p from base and changes nothing else:
\* every other key path keeps its value and no key is added.
C17_DeleteRemovesOnlyTarget ==
    Merged =>
        \A p \in Paths(doc_A) :
            SentinelAt(doc_A, p) =>
                /\ merged_A.ok
                /\ Flat(merged_A.d) =
                      { e \in Flat(doc_base) : p \notin Prefixes(e[1]) }

\* No delete sentinel in the overlay u.
NoSentinel(u) == \A p \in Paths(u) : ~IsDelete(At(u, p))

\* All four merges returned.
AllReturned ==
    /\ merge_pc = "done"
    /\ merged_A.ok
    /\ merged_AB.ok
    /\ overlay_AB.ok
    /\ merged_overlay.ok

\* C18 as stated: for all base, A and B, delete sentinels included,
\* deep_update(deep_update(base, A), B) = deep_update(base, deep_update(A, B)).
C18_Associative ==
    AllReturned => (merged_AB.d = merged_overlay.d)

\* C18, amended: for overlays A and B that hold no delete sentinel, whenever
\* deep_update(deep_update(base, A), B) returns, deep_update(A, B) and
\* deep_update(base, deep_update(A, B)) return too and the two results are
\* equal.
C18_AssociativeWithoutSentinel ==
    (merge_pc = "done" /\ merged_AB.ok /\ NoSentinel(doc_A) /\ NoSentinel(doc_B)) =>
        /\ overlay_AB.ok
        /\ merged_overlay.ok
        /\ merged_AB.d = merged_overlay.d

\* Two overlays that both reach into the same nested mapping of base.
C18_Witness ==
    /\ AllReturned
    /\ NoSentinel(doc_A)
    /\ NoSentinel(doc_B)
    /\ \E k \in DOMAIN doc_A \cap DOMAIN doc_B :
          /\ IsMapping(doc_A[k])
          /\ IsMapping(doc_B[k])
          /\ DOMAIN doc_A[k].m # {}
          /\ DOMAIN doc_B[k].m # {}
          /\ doc_A[k] # doc_B[k]
    /\ merged_AB.d = merged_overlay.d

\* compare_configs(base, A) has been called.
Compared == merge_pc \notin {"idle", "start"}

Range(seq) == { seq[i] : i \in DOMAIN seq }

\* Every key above p holds a mapping in both documents.
SharedAbove(o, u, p) ==
    \A q \in ProperPrefixes(p) :
        /\ q \in Paths(o) /\ IsMapping(At(o, q))
        /\ q \in Paths(u) /\ IsMapping(At(u, q))

\* The key paths at which two documents differ, not looking below a key that
\* only one of them has or that is not a mapping in both.
Differences(o, u) ==
    { [kind |-> "add", path |-> p, old |-> At(u, p), new |-> At(u, p)] :
        p \in { q \in Paths(u) : SharedAbove(o, u, q) /\ q \notin Paths(o) } }
    \cup
    { [kind |-> "remove", path |-> p, old |-> At(o, p), new |-> At(o, p)] :
        p \in { q \in Paths(o) : SharedAbove(o, u, q) /\ q \notin Paths(u) } }
    \cup
    { [kind |-> "change", path |-> p, old |-> At(o, p), new |-> At(u, p)] :
        p \in { q \in Paths(o) \cap Paths(u) :
                  /\ ~(IsMapping(At(o, q)) /\ IsMapping(At(u, q)))
                  /\ At(o, q) # At(u, q) } }

\* The leaf key paths (those that hold a scalar) of a document.
LeafPaths(f) == { p \in Paths(f) : ~IsMapping(At(f, p)) }

\* The leaf key paths that differ: added, removed, or with another value.
LeafDifferences(o, u) ==
    { [kind |-> "add", path |-> p] : p \in LeafPaths(u) \ Paths(o) }
    \cup
    { [kind |-> "remove", path |-> p] : p \in LeafPaths(o) \ Paths(u) }
    \cup
    { [kind |-> "change", path |-> p] :
        p \in { q \in Paths(o) \cap Paths(u) :
                  /\ q \in LeafPaths(o) \cup LeafPaths(u)
                  /\ At(o, q) # At(u, q) } }

\* C19 as stated: compare_configs reports exactly one entry per leaf key path
\* that differs, classified as addition, change or removal, and none for an
\* equal one; the result is empty iff the two mappings are equal.
C19_OneEntryPerLeaf ==
    Compared =>
        /\ { [kind |-> e.kind, path |-> e.path] : e \in Range(changes) }
              = LeafDifferences(doc_base, doc_A)
        /\ Len(changes) = Cardinality(LeafDifferences(doc_base, doc_A))
        /\ (changes = <<>>) <=> (doc_base = doc_A)

\* C19, amended: compare_configs reports exactly one entry per key path at
\* which the two mappings differ, not descending below a key that only one of
\* them has or that is not a mapping in both: an added or removed mapping is
\* one entry, not one per leaf; the result is empty iff the mappings are equal.
C19_OneEntryPerDifference ==
    Compared =>
        /\ Range(changes) = Differences(doc_base, doc_A)
        /\ Len(changes) = Cardinality(Differences(doc_base, doc_A))
        /\ (changes = <<>>) <=> (doc_base = doc_A)

\* A comparison that reports an added mapping with a key in it, and a
\* removed key.
C19_Witness ==
    /\ Compared
    /\ \E e \in Range(changes) :
          e.kind = "add" /\ IsMapping(e.new) /\ DOMAIN e.new.m # {}
    /\ \E e \in Range(changes) : e.kind = "remove"

\* Base and overlay hold values of different kinds at key k.
KindChange(k) ==
    /\ k \in DOMAIN doc_base \cap DOMAIN doc_A
    /\ ~IsDelete(doc_A[k])
    /\ IsMapping(doc_base[k]) # IsMapping(doc_A[k])

\* C20 as stated: when base and overlay hold values of different kinds at
\* the same key, deep_update returns normally and the result holds the
\* overlay's value at that key, all other keys of base unchanged.
C20_KindChangeIsValueChange ==
    Merged =>
        \A k \in Keys :
            KindChange(k) =>
                /\ merged_A.ok
                /\ merged_A.d[k] = doc_A[k]
                /\ \A j \in DOMAIN doc_base \ DOMAIN doc_A :
                      j \in DOMAIN merged_A.d /\ merged_A.d[j] = doc_base[j]

\* C22 as stated: the config written for the second attempt is the unit's
\* config with the override merged into it by the deep merge: every key path
\* of the config that the override does not name, keys nested inside a
\* mapping that the override also contains included, is still present with
\* its old value (unless the override puts a scalar in place of a mapping
\* above it).
C22_RetryMergeKeepsUnnamed ==
    (merge_pc = "updated") =>
        \A p \in Paths(doc_base) :
            (p \notin Paths(doc_A) /\ ~ReplacedBy(doc_A, p)) =>
                (p \in Paths(config) /\ At(config, p) = At(doc_base, p))

====
